---- MODULE Spec2Model ----
(***************************************************************************)
(* A model of the experiment orchestration core of PCCArena:               *)
(*   - Base.rate (getter/setter)            src/algs_wrapper/base.py       *)
(*   - Base.__set_filepath, Base.run        src/algs_wrapper/base.py       *)
(*   - GPCC.encode / GPCC.decode            src/algs_wrapper/GPCC.py       *)
(*   - timer, execute_cmd, parallel         src/utils/processing.py        *)
(* Strings that the code parses (rate tags, file names) are sequences of   *)
(* one-character strings, so that matching and suffix replacement are      *)
(* computed the way re.search and pathlib compute them.                    *)
(***************************************************************************)
EXTENDS Integers, Sequences, FiniteSets, TLC

VARIABLES
    rate,          \* Base._rate: the stored tag, or Unset (attribute missing)
    rateIn,        \* argument of the most recent rate-setter call
    rateCalls,     \* number of rate-setter calls made
    rateWarned,    \* the most recent setter call logged the warning
    rateErr,       \* exception that escaped the most recent setter call
    lastAccepted,  \* the most recent input for which re.search matched
    probe,         \* two items and the paths __set_filepath returned for them
    disp,          \* parallel(): "idle", "running", "returned", "raised"
    devices,       \* len(deviceIDs) of this parallel() call (0 if not asked)
    dispErr,       \* exception that escaped parallel()
    useGpu,        \* parallel()'s use_gpu argument
    workers,       \* worker processes created by Pool(process)
    jobs,          \* one record per element of filelist (see NewJob)
    results,       \* the pool's result queue: finished jobs, oldest first
    completed,     \* results the parent has consumed (tqdm's count)
    nDispatch,     \* number of parallel() calls so far
    fs,            \* the files: a function from paths to contents
    logsAtStart,   \* the log paths holding a file when this parallel() began
    dirs,          \* the directories that exist
    expDir,        \* the exp_dir bound into the job (prun) of this parallel()
    exec,          \* the last call of execute_cmd: what it was given and did
    runRate,       \* the rate tag of each run_dataset so far, in order
    fsAtStart      \* the files when the current run_dataset began

rateVars == <<rate, rateIn, rateCalls, rateWarned, rateErr, lastAccepted>>
dispVars == <<disp, devices, dispErr, useGpu, workers, jobs, results, completed,
              nDispatch, fs, logsAtStart, dirs, expDir>>
dsVars == <<runRate, fsAtStart>>
vars == <<rateVars, probe, dispVars, exec, dsVars>>

(***************************************************************************)
(* Bounds of the model.                                                    *)
(***************************************************************************)
MaxLen == 3        \* longest string handed to the rate setter
MaxRateCalls == 2  \* rate-setter calls in one behaviour
MaxName == 3       \* longest file name handed to the path resolver
MaxItems == 2      \* longest filelist handed to parallel()
MaxDispatch == 2   \* parallel() calls in one behaviour
MaxGPU == 2        \* most devices GPUtil finds qualifying
MaxCPU == 2        \* largest os.cpu_count()
MaxCmdCalls == 2   \* execute_cmd calls in one behaviour

Min(a, b) == IF a < b THEN a ELSE b

\* All sequences over S of length lo..hi.
SeqsUpTo(S, lo, hi) == UNION {[1..n -> S] : n \in lo..hi}

(***************************************************************************)
(* The rate tag: re.search('^r[1-9]+', rate, re.MULTILINE).                *)
(***************************************************************************)
NL == "\n"
Digits19 == {"1", "9"}
RateAlphabet == {"r", "a", "0", NL} \cup Digits19
RateInputs == SeqsUpTo(RateAlphabet, 0, MaxLen)

Unset == <<"?">>     \* no _rate attribute: __init__ never assigns one
NoMatch == <<>>      \* re.search returned None (a match is never empty)

\* '^' under re.MULTILINE: at the start of the string or right after a newline.
LineStart(s, p) == p = 1 \/ s[p - 1] = NL

\* [1-9]+ is greedy: the number of consecutive digits 1..9 from position p.
RECURSIVE DigitRun(_, _)
DigitRun(s, p) ==
    IF p <= Len(s) /\ s[p] \in Digits19 THEN 1 + DigitRun(s, p + 1) ELSE 0

MatchAt(s, p) ==
    /\ p <= Len(s)
    /\ LineStart(s, p)
    /\ s[p] = "r"
    /\ DigitRun(s, p + 1) >= 1

\* re.search scans left to right and returns the leftmost match; m.group()
\* is the matched text.
ReSearch(s) ==
    IF \E p \in 1..Len(s) : MatchAt(s, p)
    THEN LET p == CHOOSE q \in 1..Len(s) :
                    /\ MatchAt(s, q)
                    /\ \A q2 \in 1..(q - 1) : ~MatchAt(s, q2)
         IN  SubSeq(s, p, p + DigitRun(s, p + 1))
    ELSE NoMatch

\* The setter. With no match it logs the warning and then evaluates
\* m.group() on None, which raises AttributeError before the assignment.
SetRate(s) ==
    /\ rateCalls < MaxRateCalls
    /\ rateIn' = s
    /\ rateCalls' = rateCalls + 1
    /\ LET m == ReSearch(s) IN
         /\ rateWarned' = (m = NoMatch)
         /\ IF m = NoMatch
            THEN /\ rateErr' = "AttributeError"
                 /\ UNCHANGED <<rate, lastAccepted>>
            ELSE /\ rateErr' = "none"
                 /\ rate' = m
                 /\ lastAccepted' = s
    /\ UNCHANGED <<probe, dispVars, exec, dsVars>>

(***************************************************************************)
(* Paths. An item (pcfile) is a relative path: a directory ("" for none)   *)
(* and a file name; a path adds the root it was joined to and the subtree  *)
(* ('bin', 'dec', 'evl'; "" for the dataset directories).                  *)
(***************************************************************************)
DOT == "."
BinSuffix == <<".", "b", "i", "n">>   \* self._algs_cfg['bin_suffix']
LogSuffix == <<".", "l", "o", "g">>

\* str.rfind('.'), 1-based: the last position holding a dot, 0 if none.
RFindDot(name) ==
    IF \E i \in 1..Len(name) : name[i] = DOT
    THEN CHOOSE i \in 1..Len(name) :
            /\ name[i] = DOT
            /\ \A k \in (i + 1)..Len(name) : name[k] # DOT
    ELSE 0

\* PurePath.suffix: name[i:] if 0 < i < len(name) - 1 (0-based), else ''.
Suffix(name) ==
    LET i == RFindDot(name) IN
    IF 1 < i /\ i < Len(name) THEN SubSeq(name, i, Len(name)) ELSE <<>>

\* PurePath.stem: the name without its suffix.
Stem(name) == SubSeq(name, 1, Len(name) - Len(Suffix(name)))

\* A with_suffix that appends the suffix instead of replacing the old one.
WithSuffixAppends(name, suffix) == name \o suffix

\* PurePath.with_suffix: replaces the suffix, or appends when there is none.
WithSuffix(name, suffix) == Stem(name) \o suffix

\* Path(root).joinpath(sub, pcfile)
JoinPath(root, sub, item) ==
    [root |-> root, sub |-> sub, dir |-> item.dir, name |-> item.name]

PathWithSuffix(p, suffix) == [p EXCEPT !.name = WithSuffix(p.name, suffix)]

\* Path.parent, and mkdir(parents=True, exist_ok=True) of it.
Parent(p) == [root |-> p.root, sub |-> p.sub, dir |-> p.dir]
MkdirParents(d) == {d, [d EXCEPT !.dir = ""]}

\* Base.__set_filepath: the five paths (the mkdir calls are in StartJob).
SetFilepath(pcfile, src_dir, nor_dir, exp_dir) ==
    [in_pcfile  |-> JoinPath(src_dir, "", pcfile),
     nor_pcfile |-> JoinPath(nor_dir, "", pcfile),
     bin_file   |-> PathWithSuffix(JoinPath(exp_dir, "bin", pcfile), BinSuffix),
     out_pcfile |-> JoinPath(exp_dir, "dec", pcfile),
     evl_log    |-> PathWithSuffix(JoinPath(exp_dir, "evl", pcfile), LogSuffix)]

\* The three directories __set_filepath calls mkdir on.
SetFilepathParents(pcfile, src_dir, nor_dir, exp_dir) ==
    LET p == SetFilepath(pcfile, src_dir, nor_dir, exp_dir) IN
    {Parent(p.bin_file), Parent(p.out_pcfile), Parent(p.evl_log)}

\* A mkdir without exist_ok: FileExistsError when the directory is there.
MkdirFailsIfPresent(ds, d) == d \in ds

\* lines 196-198: mkdir(parents=True, exist_ok=True) raises FileExistsError
\* only if the directory exists and exist_ok is false.
ExistOk == TRUE
MkdirFails(ds, d) == d \in ds /\ ~ExistOk

SetFilepathDirs(pcfile, src_dir, nor_dir, exp_dir) ==
    LET p == SetFilepath(pcfile, src_dir, nor_dir, exp_dir) IN
    MkdirParents(Parent(p.bin_file)) \cup MkdirParents(Parent(p.out_pcfile))
        \cup MkdirParents(Parent(p.evl_log))

\* Directories are sequences of components (Path(exp_dir).joinpath(tag)
\* appends one).
SrcDir == <<"src">>
NorDir == <<"nor">>
ExpDir == <<"exp">>

\* File names the resolver is probed with: every name over the alphabet
\* that is a file name (not '.', '..' and the like).
NameAlphabet == {"a", "b", DOT}
Names == {n \in SeqsUpTo(NameAlphabet, 1, MaxName) :
            \E i \in 1..Len(n) : n[i] # DOT}
ProbeDirs == {"", "d"}
ProbeItems == [dir : ProbeDirs, name : Names]

NoPaths == <<>>

\* Two jobs of one dispatch resolve their paths.
Resolve ==
    /\ probe.paths = NoPaths
    /\ probe' = [probe EXCEPT !.paths =
                    <<SetFilepath(probe.items[1], SrcDir, NorDir, ExpDir),
                      SetFilepath(probe.items[2], SrcDir, NorDir, ExpDir)>>]
    /\ UNCHANGED <<rateVars, dispVars, exec, dsVars>>

(***************************************************************************)
(* Files. A content records the run that wrote it (dispatch number,        *)
(* position in the filelist, item) and what it is: "bin", "dec", "report", *)
(* or "empty" for what open(path, 'w') leaves before the write.            *)
(***************************************************************************)
NoItem == [dir |-> "", name |-> <<"a">>]
Content(run, j, item, kind) ==
    [run |-> run, job |-> j, item |-> item, kind |-> kind]
NoReport == Content(0, 0, NoItem, "none")

Exists(f, p) == p \in DOMAIN f
WriteFile(f, p, c) ==
    [q \in (DOMAIN f) \cup {p} |-> IF q = p THEN c ELSE f[q]]

\* utils.file_io.glob_file(dir, stem + '*', fullpath=True): the files of
\* dir whose name starts with stem.
IsPrefix(s, t) == Len(s) <= Len(t) /\ SubSeq(t, 1, Len(s)) = s
GlobFile(f, dir, stem) ==
    {p \in DOMAIN f : Parent(p) = dir /\ IsPrefix(stem, p.name)}

(***************************************************************************)
(* The command executor and the codec (GPCC).                              *)
(***************************************************************************)
ExitCodes == {0, 1, 2}

\* What subprocess.run meets: the program cannot be started (no such file,
\* no permission, no such cwd), or it runs and ends with a return code
\* (negative when a signal killed it) and captured bytes on stdout and
\* stderr that are valid UTF-8 or not.
ReturnCodes == ExitCodes \cup {-9}
Outcomes ==
    {[spawned |-> FALSE]} \cup
    [spawned : {TRUE}, returncode : ReturnCodes, outOk : BOOLEAN, errOk : BOOLEAN]
Argvs == {<<"enc">>, <<"enc", "a.p">>, <<"dec", "a.bin", "a.p">>, <<"dec", "-v">>}

\* lines 53-54: ''.join(str(s)+' ' for s in cmd)
RECURSIVE JoinArgs(_)
JoinArgs(cmd) ==
    IF cmd = <<>> THEN <<>> ELSE <<Head(cmd), " ">> \o JoinArgs(Tail(cmd))
LogMessage(cmd) ==
    <<"The stdout and stderr of executed command: ">> \o JoinArgs(cmd)

\* execute_cmd, lines 48-60: one sp.run, outside the try; the try catches
\* the AssertionError of 'assert ret.returncode == 0' only, and its handler
\* logs the command, decodes and prints stdout then stderr, returns False.
ExecuteCmdCall(cmd, o) ==
    IF ~o.spawned
    THEN [result |-> "raise", err |-> "FileNotFoundError", log |-> <<>>,
          attempts |-> 1]
    ELSE IF o.returncode = 0
    THEN [result |-> "True", err |-> "none", log |-> <<>>, attempts |-> 1]
    ELSE IF ~o.outOk \/ ~o.errOk
    THEN [result |-> "raise", err |-> "UnicodeDecodeError",
          log |-> LogMessage(cmd), attempts |-> 1]
    ELSE [result |-> "False", err |-> "none", log |-> LogMessage(cmd),
          attempts |-> 1]

NoCall == [calls |-> 0]
\* A caller calls execute_cmd(cmd) and the operating system answers with o.
ExecCmd(cmd, o) ==
    /\ exec.calls < MaxCmdCalls
    /\ exec' = [calls |-> exec.calls + 1, cmd |-> cmd, outcome |-> o,
                did |-> ExecuteCmdCall(cmd, o)]
    /\ UNCHANGED <<rateVars, probe, dispVars, dsVars>>

\* execute_cmd: True iff ret.returncode == 0.
ExecuteCmd(returncode) == returncode = 0

\* An encode / a decode that calls execute_cmd and drops its result.
EncodeIgnoresResult(returncode) == FALSE
DecodeIgnoresResult(returncode) == FALSE

\* GPCC.encode / GPCC.decode: assert execute_cmd(cmd, ...), so a False
\* result raises AssertionError and a True one returns None.
GPCCEncodeRaises(returncode) == ~ExecuteCmd(returncode)
GPCCDecodeRaises(returncode) == ~ExecuteCmd(returncode)

\* timer(func, *args): calls func once, no try/except: what func raises
\* escapes timer.
TimerRaises(funcRaises) == funcRaises

(***************************************************************************)
(* Base.run, one job per element of the filelist. pc is the statement the  *)
(* job's worker executes next:                                             *)
(*   "queued" (not taken by a worker), "encode", "decode", "glob",         *)
(*   "evaluate", "open", "write", then "returned" (run returned), "raised" *)
(*   (an exception escaped run) or "killed" (the worker was terminated).   *)
(***************************************************************************)
DispatchItems ==
    {[dir |-> "", name |-> <<"a", ".", "p">>],
     [dir |-> "", name |-> <<"a", ".", "x">>],
     [dir |-> "", name |-> <<"a", "b", ".", "p">>]}
FileLists == SeqsUpTo(DispatchItems, 0, MaxItems)

NewJob(item) ==
    [item |-> item, pc |-> "queued",
     encCalls |-> 0, decCalls |-> 0, metCalls |-> 0,
     logOpens |-> 0, logWrites |-> 0,
     encOk |-> "none", decOk |-> "none",
     err |-> "none", ret |-> NoReport, bin_files |-> {},
     globCalls |-> 0, metBins |-> {}]

\* The positions of a job inside Base.run and inside PCGCv1.run.
RunPcs == {"encode", "decode", "glob", "evaluate", "open", "write"}
V1Pcs == {"v1_encode", "v1_decode", "v1_glob", "v1_evaluate", "v1_open",
          "v1_write"}
Active(j) == jobs[j].pc \in RunPcs \cup V1Pcs
Finished(j) == jobs[j].pc \in {"returned", "raised"}
NumActive == Cardinality({j \in 1..Len(jobs) : Active(j)})

Paths(j) == SetFilepath(jobs[j].item, SrcDir, NorDir, expDir)

\* A pool worker takes the next task of the queue (tasks are handed out in
\* list order) and run() begins: lines 130-135, __set_filepath with its
\* three mkdir calls.
StartJob(j) ==
    /\ disp = "running"
    /\ jobs[j].pc = "queued"
    /\ \A k \in 1..(j - 1) : jobs[k].pc # "queued"
    /\ NumActive < workers
    /\ IF \E d \in SetFilepathParents(jobs[j].item, SrcDir, NorDir, expDir) :
             MkdirFails(dirs, d)
       THEN /\ jobs' = [jobs EXCEPT ![j].pc = "raised",
                                    ![j].err = "FileExistsError"]
            /\ results' = Append(results, j)
            /\ dirs' = dirs
       ELSE /\ jobs' = [jobs EXCEPT ![j].pc = "encode"]
            /\ results' = results
            /\ dirs' = dirs \cup
                    SetFilepathDirs(jobs[j].item, SrcDir, NorDir, expDir)
    /\ UNCHANGED <<disp, devices, dispErr, useGpu, workers, completed,
                   nDispatch, fs>>
    /\ UNCHANGED <<rateVars, probe, logsAtStart, expDir, exec, dsVars>>

\* An exception leaves run(): the worker catches it and sends it to the
\* parent as the task's result.
RunRaises(j, jb, error) ==
    /\ jobs' = [jobs EXCEPT ![j] = [jb EXCEPT !.pc = "raised", !.err = error]]
    /\ results' = Append(results, j)

\* line 137: enc_time = timer(self.encode, in_pcfile, bin_file)
Encode(j) ==
    /\ disp = "running"
    /\ jobs[j].pc = "encode"
    /\ \E rc \in ExitCodes :
         LET jb == [jobs[j] EXCEPT !.encCalls = @ + 1,
                       !.encOk = IF ExecuteCmd(rc) THEN "ok" ELSE "fail"]
         IN  IF TimerRaises(GPCCEncodeRaises(rc))
             THEN /\ RunRaises(j, jb, "AssertionError")
                  /\ fs' = fs
             ELSE /\ jobs' = [jobs EXCEPT ![j] = [jb EXCEPT !.pc = "decode"]]
                  /\ fs' = WriteFile(fs, Paths(j).bin_file,
                                     Content(nDispatch, j, jobs[j].item, "bin"))
                  /\ results' = results
    /\ UNCHANGED <<disp, devices, dispErr, useGpu, workers, completed, nDispatch, dirs>>
    /\ UNCHANGED <<rateVars, probe, logsAtStart, expDir, exec, dsVars>>

\* line 138: dec_time = timer(self.decode, bin_file, out_pcfile)
Decode(j) ==
    /\ disp = "running"
    /\ jobs[j].pc = "decode"
    /\ \E rc \in ExitCodes :
         LET jb == [jobs[j] EXCEPT !.decCalls = @ + 1,
                       !.decOk = IF ExecuteCmd(rc) THEN "ok" ELSE "fail"]
         IN  IF TimerRaises(GPCCDecodeRaises(rc))
             THEN /\ RunRaises(j, jb, "AssertionError")
                  /\ fs' = fs
             ELSE /\ jobs' = [jobs EXCEPT ![j] = [jb EXCEPT !.pc = "glob"]]
                  /\ fs' = WriteFile(fs, Paths(j).out_pcfile,
                                     Content(nDispatch, j, jobs[j].item, "dec"))
                  /\ results' = results
    /\ UNCHANGED <<disp, devices, dispErr, useGpu, workers, completed, nDispatch, dirs>>
    /\ UNCHANGED <<rateVars, probe, logsAtStart, expDir, exec, dsVars>>

\* A glob for the artifact's own name only.
GlobExactName(bin_file) == bin_file.name

\* line 143: the pattern is bin_file.stem + '*', every name the stem begins.
GlobPattern(bin_file) == Stem(bin_file.name)

\* A run that goes from the glob straight to the log, without the metrics.
GlobSkipsMetrics(j) ==
    /\ disp = "running"
    /\ jobs[j].pc = "glob"
    /\ jobs' = [jobs EXCEPT ![j].pc = "open", ![j].globCalls = @ + 1]
    /\ UNCHANGED <<disp, devices, dispErr, useGpu, workers, results, completed,
                   nDispatch, fs, dirs>>
    /\ UNCHANGED <<rateVars, probe, logsAtStart, expDir, exec, dsVars>>

\* lines 142-144: bin_files = glob_file(bin_file.parent, bin_file.stem+'*')
Glob(j) ==
    /\ disp = "running"
    /\ jobs[j].pc = "glob"
    /\ jobs' = [jobs EXCEPT ![j].pc = "evaluate",
                   ![j].globCalls = @ + 1,
                   ![j].bin_files = GlobFile(fs, Parent(Paths(j).bin_file),
                                             GlobPattern(Paths(j).bin_file))]
    /\ UNCHANGED <<disp, devices, dispErr, useGpu, workers, results, completed,
                   nDispatch, fs, dirs>>
    /\ UNCHANGED <<rateVars, probe, logsAtStart, expDir, exec, dsVars>>

\* lines 146-155: ret = VIMetrics.evaluate(...). The bridge returns its
\* report, or fails (its own subprocess or parsing), which escapes run.
Evaluate(j) ==
    /\ disp = "running"
    /\ jobs[j].pc = "evaluate"
    /\ \E ok \in BOOLEAN :
         LET jb == [jobs[j] EXCEPT !.metCalls = @ + 1,
                                   !.metBins = jobs[j].bin_files] IN
         IF ok
         THEN /\ jobs' = [jobs EXCEPT ![j] =
                    [jb EXCEPT !.pc = "open",
                               !.ret = Content(nDispatch, j, jobs[j].item,
                                              "report")]]
              /\ results' = results
         ELSE RunRaises(j, jb, "MetricsError")
    /\ UNCHANGED <<disp, devices, dispErr, useGpu, workers, completed, nDispatch,
                   fs, dirs>>
    /\ UNCHANGED <<rateVars, probe, logsAtStart, expDir, exec, dsVars>>

\* An open that creates the file if it is missing and keeps what it holds.
OpenLogKeepsContent(j) ==
    /\ disp = "running"
    /\ jobs[j].pc = "open"
    /\ jobs' = [jobs EXCEPT ![j].pc = "write", ![j].logOpens = @ + 1]
    /\ fs' = IF Exists(fs, Paths(j).evl_log) THEN fs
             ELSE WriteFile(fs, Paths(j).evl_log,
                            Content(nDispatch, j, jobs[j].item, "empty"))
    /\ UNCHANGED <<disp, devices, dispErr, useGpu, workers, results, completed,
                   nDispatch, dirs>>
    /\ UNCHANGED <<rateVars, probe, logsAtStart, expDir, exec, dsVars>>

\* line 156: open(evl_log, 'w') creates the file or truncates it.
OpenLog(j) ==
    /\ disp = "running"
    /\ jobs[j].pc = "open"
    /\ jobs' = [jobs EXCEPT ![j].pc = "write", ![j].logOpens = @ + 1]
    /\ fs' = WriteFile(fs, Paths(j).evl_log,
                       Content(nDispatch, j, jobs[j].item, "empty"))
    /\ UNCHANGED <<disp, devices, dispErr, useGpu, workers, results, completed,
                   nDispatch, dirs>>
    /\ UNCHANGED <<rateVars, probe, logsAtStart, expDir, exec, dsVars>>

\* What a write of text from offset 0 leaves in a file holding cur: text
\* itself if cur is empty; if another writer filled the file since it was
\* opened, text followed by what is left of cur beyond it ("mixed"), or
\* text alone when cur was no longer than text.
Overlay(cur, text) ==
    IF cur.kind \in {"report", "mixed"}
    THEN {text, [text EXCEPT !.kind = "mixed"]}
    ELSE {text}

\* line 157: f.write(ret), the file is closed and run returns None.
WriteLog(j) ==
    /\ disp = "running"
    /\ jobs[j].pc = "write"
    /\ jobs' = [jobs EXCEPT ![j].pc = "returned", ![j].logWrites = @ + 1]
    /\ \E c \in Overlay(fs[Paths(j).evl_log], jobs[j].ret) :
         fs' = WriteFile(fs, Paths(j).evl_log, c)
    /\ results' = Append(results, j)
    /\ UNCHANGED <<disp, devices, dispErr, useGpu, workers, completed, nDispatch, dirs>>
    /\ UNCHANGED <<rateVars, probe, logsAtStart, expDir, exec, dsVars>>

(***************************************************************************)
(* PCGCv1.run, the override of Base.run. The two helpers it calls that no  *)
(* class under src/ defines are taken from the specification:              *)
(* _set_filepath is the experiment path resolver, _run_command runs one    *)
(* command and answers whether it succeeded.                               *)
(***************************************************************************)
RunCommand(returncode) == ExecuteCmd(returncode)
V1SetFilepath(pcfile, src_dir, nor_dir, exp_dir) ==
    SetFilepath(pcfile, src_dir, nor_dir, exp_dir)
V1Paths(j) == V1SetFilepath(jobs[j].item, SrcDir, NorDir, expDir)

\* lines 84-96: the paths are resolved and the two commands are made.
V1StartJob(j) ==
    /\ disp = "running"
    /\ jobs[j].pc = "queued"
    /\ \A k \in 1..(j - 1) : jobs[k].pc # "queued"
    /\ NumActive < workers
    /\ jobs' = [jobs EXCEPT ![j].pc = "v1_encode"]
    /\ dirs' = dirs \cup SetFilepathDirs(jobs[j].item, SrcDir, NorDir, expDir)
    /\ UNCHANGED <<disp, devices, dispErr, useGpu, workers, results, completed,
                   nDispatch, fs>>
    /\ UNCHANGED <<rateVars, probe, logsAtStart, expDir, exec, dsVars>>

\* A run that goes on whatever the encode command answered.
V1AlwaysGoesOn(ok) == TRUE

\* lines 98-109: 'if self._run_command(...): pass / else: return'.
V1GoesOn(ok) == ok

\* lines 98-103: the encode command; run returns if it failed.
V1Encode(j) ==
    /\ disp = "running"
    /\ jobs[j].pc = "v1_encode"
    /\ \E rc \in ExitCodes :
         LET jb == [jobs[j] EXCEPT !.encCalls = @ + 1,
                       !.encOk = IF RunCommand(rc) THEN "ok" ELSE "fail"]
         IN  IF V1GoesOn(RunCommand(rc))
             THEN /\ jobs' = [jobs EXCEPT ![j] = [jb EXCEPT !.pc = "v1_decode"]]
                  /\ fs' = IF RunCommand(rc)
                           THEN WriteFile(fs, V1Paths(j).bin_file,
                                    Content(nDispatch, j, jobs[j].item, "bin"))
                           ELSE fs
                  /\ results' = results
             ELSE /\ jobs' = [jobs EXCEPT ![j] = [jb EXCEPT !.pc = "returned"]]
                  /\ fs' = fs
                  /\ results' = Append(results, j)
    /\ UNCHANGED <<disp, devices, dispErr, useGpu, workers, completed, nDispatch, dirs>>
    /\ UNCHANGED <<rateVars, probe, logsAtStart, expDir, exec, dsVars>>

\* lines 104-109: the decode command; run returns if it failed.
V1Decode(j) ==
    /\ disp = "running"
    /\ jobs[j].pc = "v1_decode"
    /\ \E rc \in ExitCodes :
         LET jb == [jobs[j] EXCEPT !.decCalls = @ + 1,
                       !.decOk = IF RunCommand(rc) THEN "ok" ELSE "fail"]
         IN  IF V1GoesOn(RunCommand(rc))
             THEN /\ jobs' = [jobs EXCEPT ![j] = [jb EXCEPT !.pc = "v1_glob"]]
                  /\ fs' = IF RunCommand(rc)
                           THEN WriteFile(fs, V1Paths(j).out_pcfile,
                                    Content(nDispatch, j, jobs[j].item, "dec"))
                           ELSE fs
                  /\ results' = results
             ELSE /\ jobs' = [jobs EXCEPT ![j] = [jb EXCEPT !.pc = "returned"]]
                  /\ fs' = fs
                  /\ results' = Append(results, j)
    /\ UNCHANGED <<disp, devices, dispErr, useGpu, workers, completed, nDispatch, dirs>>
    /\ UNCHANGED <<rateVars, probe, logsAtStart, expDir, exec, dsVars>>

\* lines 113-115: glob_file(Path(bin_file).parent, Path(bin_file).stem+'*')
V1Glob(j) ==
    /\ disp = "running"
    /\ jobs[j].pc = "v1_glob"
    /\ jobs' = [jobs EXCEPT ![j].pc = "v1_evaluate",
                   ![j].globCalls = @ + 1,
                   ![j].bin_files = GlobFile(fs, Parent(V1Paths(j).bin_file),
                                             Stem(V1Paths(j).bin_file.name))]
    /\ UNCHANGED <<disp, devices, dispErr, useGpu, workers, results, completed,
                   nDispatch, fs, dirs>>
    /\ UNCHANGED <<rateVars, probe, logsAtStart, expDir, exec, dsVars>>

\* lines 116-125: ret = VIMetrics.evaluate(..., bin_files)
V1Evaluate(j) ==
    /\ disp = "running"
    /\ jobs[j].pc = "v1_evaluate"
    /\ \E ok \in BOOLEAN :
         LET jb == [jobs[j] EXCEPT !.metCalls = @ + 1,
                                   !.metBins = jobs[j].bin_files] IN
         IF ok
         THEN /\ jobs' = [jobs EXCEPT ![j] =
                    [jb EXCEPT !.pc = "v1_open",
                               !.ret = Content(nDispatch, j, jobs[j].item,
                                              "report")]]
              /\ results' = results
         ELSE RunRaises(j, jb, "MetricsError")
    /\ UNCHANGED <<disp, devices, dispErr, useGpu, workers, completed, nDispatch,
                   fs, dirs>>
    /\ UNCHANGED <<rateVars, probe, logsAtStart, expDir, exec, dsVars>>

\* line 126: open(evl_log, 'w')
V1OpenLog(j) ==
    /\ disp = "running"
    /\ jobs[j].pc = "v1_open"
    /\ jobs' = [jobs EXCEPT ![j].pc = "v1_write", ![j].logOpens = @ + 1]
    /\ fs' = WriteFile(fs, V1Paths(j).evl_log,
                       Content(nDispatch, j, jobs[j].item, "empty"))
    /\ UNCHANGED <<disp, devices, dispErr, useGpu, workers, results, completed,
                   nDispatch, dirs>>
    /\ UNCHANGED <<rateVars, probe, logsAtStart, expDir, exec, dsVars>>

\* line 127: f.write(ret), and run returns.
V1WriteLog(j) ==
    /\ disp = "running"
    /\ jobs[j].pc = "v1_write"
    /\ jobs' = [jobs EXCEPT ![j].pc = "returned", ![j].logWrites = @ + 1]
    /\ \E c \in Overlay(fs[V1Paths(j).evl_log], jobs[j].ret) :
         fs' = WriteFile(fs, V1Paths(j).evl_log, c)
    /\ results' = Append(results, j)
    /\ UNCHANGED <<disp, devices, dispErr, useGpu, workers, completed, nDispatch, dirs>>
    /\ UNCHANGED <<rateVars, probe, logsAtStart, expDir, exec, dsVars>>

(***************************************************************************)
(* parallel(func, filelist, use_gpu)                                       *)
(***************************************************************************)
GpuLimit == 8     \* GPUtil.getAvailable(limit = 8)

\* A check that lets an empty device list through.
NoResourceOffByOne(process) == process < 0

\* lines 94-99: no process for the pool, raise ValueError.
NoAvailableResource(process) == process <= 0

\* lines 81-104 up to the creation of the pool and the submission of the
\* tasks: every element of filelist becomes a queued task.
Parallel(filelist, use_gpu, qualifying, cpus) ==
    /\ disp \in {"idle", "returned", "raised"}
    /\ nDispatch < MaxDispatch
    /\ nDispatch' = nDispatch + 1
    /\ useGpu' = use_gpu
    /\ jobs' = [i \in 1..Len(filelist) |-> NewJob(filelist[i])]
    /\ results' = <<>>
    /\ completed' = 0
    /\ devices' = IF use_gpu THEN Min(qualifying, GpuLimit) ELSE 0
    /\ LET process == IF use_gpu THEN Min(qualifying, GpuLimit) ELSE cpus IN
       IF use_gpu /\ NoAvailableResource(process)
       THEN /\ disp' = "raised"
            /\ dispErr' = "ValueError"
            /\ workers' = 0
       ELSE /\ disp' = "running"
            /\ dispErr' = "none"
            /\ workers' = process
    /\ logsAtStart' = {p \in DOMAIN fs : p.sub = "evl"}
    /\ UNCHANGED <<fs, dirs>>

\* parallel(prun, filelist, use_gpu) called with a job bound to exp_dir.
Dispatch(filelist, use_gpu, qualifying, cpus) ==
    /\ Parallel(filelist, use_gpu, qualifying, cpus)
    /\ expDir' = ExpDir
    /\ UNCHANGED <<rateVars, probe, exec, dsVars>>

\* A run_dataset that leaves exp_dir as it was given.
DatasetRootFlat(exp_dir, tag) == exp_dir

\* line 70: exp_dir = Path(exp_dir).joinpath(self._rate)
DatasetRoot(exp_dir, tag) == Append(exp_dir, tag)

\* run_dataset, lines 49-98: the experiment directory gets the rate tag
\* (AttributeError if no rate was ever stored), the dataset's files are
\* globbed and handed to parallel() with self._use_gpu.
RunDataset(filelist, qualifying, cpus) ==
    /\ IF rate = Unset
       THEN /\ disp \in {"idle", "returned", "raised"}
            /\ disp' = "raised"
            /\ dispErr' = "AttributeError"
            /\ UNCHANGED <<devices, useGpu, workers, jobs, results, completed,
                           nDispatch, fs, logsAtStart, dirs, expDir, dsVars>>
       ELSE /\ Parallel(filelist, useGpu, qualifying, cpus)
            /\ expDir' = DatasetRoot(ExpDir, rate)
            /\ runRate' = Append(runRate, rate)
            /\ fsAtStart' = fs
    /\ UNCHANGED <<rateVars, probe, exec>>

\* The caller sets the rate between two run_dataset calls.
SetDatasetRate(s) ==
    /\ disp # "running"
    /\ SetRate(s)

\* Pool.__exit__ calls terminate(): the workers are killed where they are,
\* and the tasks nobody took are dropped.
Terminate(js) ==
    [i \in DOMAIN js |->
        IF js[i].pc \in RunPcs \cup V1Pcs
        THEN [js[i] EXCEPT !.pc = "killed"]
        ELSE js[i]]

\* IMapUnorderedIterator.next(): a task that raised has its exception
\* raised again in the parent.
ResultRaises(jb) == jb.pc = "raised"

\* line 104: list(tqdm(pool.imap_unordered(...))) takes the next result in
\* order of completion. A failed result raises out of the with block.
Consume ==
    /\ disp = "running"
    /\ results # <<>>
    /\ LET j == Head(results) IN
       IF ResultRaises(jobs[j])
       THEN /\ disp' = "raised"
            /\ dispErr' = jobs[j].err
            /\ jobs' = Terminate(jobs)
            /\ results' = Tail(results)
            /\ completed' = completed
       ELSE /\ completed' = completed + 1
            /\ results' = Tail(results)
            /\ UNCHANGED <<disp, dispErr, jobs>>
    /\ UNCHANGED <<devices, useGpu, workers, nDispatch, fs, dirs>>
    /\ UNCHANGED <<rateVars, probe, logsAtStart, expDir, exec, dsVars>>

\* The iterator is exhausted: the with block ends and parallel() returns.
PoolExit ==
    /\ disp = "running"
    /\ completed = Len(jobs)
    /\ disp' = "returned"
    /\ jobs' = Terminate(jobs)
    /\ UNCHANGED <<devices, dispErr, useGpu, workers, results, completed,
                   nDispatch, fs, dirs>>
    /\ UNCHANGED <<rateVars, probe, logsAtStart, expDir, exec, dsVars>>

(***************************************************************************)
(* Specifications.                                                         *)
(***************************************************************************)
Init ==
    /\ rate = Unset
    /\ rateIn = <<>>
    /\ rateCalls = 0
    /\ rateWarned = FALSE
    /\ rateErr = "none"
    /\ lastAccepted = Unset
    /\ probe = [items |-> <<NoItem, NoItem>>, paths |-> NoPaths]
    /\ disp = "idle"
    /\ devices = 0
    /\ dispErr = "none"
    /\ useGpu = FALSE
    /\ workers = 0
    /\ jobs = <<>>
    /\ results = <<>>
    /\ completed = 0
    /\ nDispatch = 0
    /\ fs = <<>>
    /\ logsAtStart = {}
    /\ dirs = {}
    /\ expDir = ExpDir
    /\ exec = NoCall
    /\ runRate = <<>>
    /\ fsAtStart = <<>>

Next ==
    \/ \E filelist \in FileLists, use_gpu \in BOOLEAN,
          qualifying \in 0..MaxGPU, cpus \in 1..MaxCPU :
            Dispatch(filelist, use_gpu, qualifying, cpus)
    \/ \E j \in 1..Len(jobs) : StartJob(j)
    \/ \E j \in 1..Len(jobs) : Encode(j)
    \/ \E j \in 1..Len(jobs) : Decode(j)
    \/ \E j \in 1..Len(jobs) : Glob(j)
    \/ \E j \in 1..Len(jobs) : Evaluate(j)
    \/ \E j \in 1..Len(jobs) : OpenLog(j)
    \/ \E j \in 1..Len(jobs) : WriteLog(j)
    \/ Consume
    \/ PoolExit

\* The dispatcher and its jobs.
Spec == Init /\ [][Next]_vars

\* The rate setter alone, over every input string.
NextRate == \E s \in RateInputs : SetRate(s)
SpecRate == Init /\ [][NextRate]_vars

\* The path resolver alone, over every pair of items.
InitPath ==
    /\ Init!1 /\ Init!2 /\ Init!3 /\ Init!4 /\ Init!5 /\ Init!6
    /\ probe \in [items : ProbeItems \X ProbeItems, paths : {NoPaths}]
    /\ disp = "idle"
    /\ devices = 0
    /\ dispErr = "none"
    /\ useGpu = FALSE
    /\ workers = 0
    /\ jobs = <<>>
    /\ results = <<>>
    /\ completed = 0
    /\ nDispatch = 0
    /\ fs = <<>>
    /\ logsAtStart = {}
    /\ dirs = {}
    /\ expDir = ExpDir
    /\ exec = NoCall
    /\ runRate = <<>>
    /\ fsAtStart = <<>>
NextPath == Resolve
SpecPath == InitPath /\ [][NextPath]_vars

\* The command executor alone, over every command and every outcome.
NextCmd == \E cmd \in Argvs, o \in Outcomes : ExecCmd(cmd, o)
SpecCmd == Init /\ [][NextCmd]_vars

\* run_dataset under changing rates. A dataset is the list of distinct
\* files glob_file finds in its directory.
Datasets ==
    {f \in FileLists : /\ Len(f) >= 1 /\ f[1].name = <<"a", DOT, "p">>
                       /\ \A a, b \in 1..Len(f) : f[a] = f[b] => a = b}
DatasetRates == {<<"r", "1">>, <<"r", "9">>, <<"r", "1", "0">>, <<"a">>}
InitDataset ==
    /\ Init!1 /\ Init!2 /\ Init!3 /\ Init!4 /\ Init!5 /\ Init!6 /\ Init!7
    /\ disp = "idle"
    /\ devices = 0
    /\ dispErr = "none"
    /\ useGpu \in BOOLEAN
    /\ workers = 0
    /\ jobs = <<>>
    /\ results = <<>>
    /\ completed = 0
    /\ nDispatch = 0
    /\ fs = <<>>
    /\ logsAtStart = {}
    /\ dirs = {}
    /\ expDir = ExpDir
    /\ exec = NoCall
    /\ runRate = <<>>
    /\ fsAtStart = <<>>
NextDataset ==
    \/ \E s \in DatasetRates : SetDatasetRate(s)
    \/ \E filelist \in Datasets, qualifying \in 0..MaxGPU, cpus \in 1..MaxCPU :
            RunDataset(filelist, qualifying, cpus)
    \/ \E j \in 1..Len(jobs) : StartJob(j)
    \/ \E j \in 1..Len(jobs) : Encode(j)
    \/ \E j \in 1..Len(jobs) : Decode(j)
    \/ \E j \in 1..Len(jobs) : Glob(j)
    \/ \E j \in 1..Len(jobs) : Evaluate(j)
    \/ \E j \in 1..Len(jobs) : OpenLog(j)
    \/ \E j \in 1..Len(jobs) : WriteLog(j)
    \/ Consume
    \/ PoolExit
SpecDataset == InitDataset /\ [][NextDataset]_vars

\* The dispatcher with jobs that are PCGCv1.run.
NextPCGC ==
    \/ \E filelist \in FileLists, qualifying \in 0..MaxGPU :
            Dispatch(filelist, TRUE, qualifying, 1)
    \/ \E j \in 1..Len(jobs) : V1StartJob(j)
    \/ \E j \in 1..Len(jobs) : V1Encode(j)
    \/ \E j \in 1..Len(jobs) : V1Decode(j)
    \/ \E j \in 1..Len(jobs) : V1Glob(j)
    \/ \E j \in 1..Len(jobs) : V1Evaluate(j)
    \/ \E j \in 1..Len(jobs) : V1OpenLog(j)
    \/ \E j \in 1..Len(jobs) : V1WriteLog(j)
    \/ Consume
    \/ PoolExit
SpecPCGC == Init /\ [][NextPCGC]_vars

\* One job at a time in an experiment directory that may already hold
\* files: a second file of a codec's stream next to an item's artifact
\* (same stem, another suffix) and a file of an unrelated stem.
SideSuffix == <<DOT, "h">>
OtherFile == JoinPath(ExpDir, "bin", [dir |-> "", name |-> <<"b">> \o BinSuffix])
SideFiles ==
    {PathWithSuffix(SetFilepath(it, SrcDir, NorDir, ExpDir).bin_file, SideSuffix) :
        it \in DispatchItems}
FilesBefore == SideFiles \cup {OtherFile}
InitSolo ==
    /\ Init!1 /\ Init!2 /\ Init!3 /\ Init!4 /\ Init!5 /\ Init!6 /\ Init!7
    /\ disp = "idle"
    /\ devices = 0
    /\ dispErr = "none"
    /\ useGpu = FALSE
    /\ workers = 0
    /\ jobs = <<>>
    /\ results = <<>>
    /\ completed = 0
    /\ nDispatch = 0
    /\ \E S \in SUBSET FilesBefore :
         fs = [p \in S |-> Content(0, 0, NoItem, "side")]
    /\ logsAtStart = {}
    /\ dirs = {Parent(p) : p \in FilesBefore}
    /\ expDir = ExpDir
    /\ exec = NoCall
    /\ runRate = <<>>
    /\ fsAtStart = <<>>
NextSolo ==
    \/ \E item \in DispatchItems : Dispatch(<<item>>, FALSE, 0, 1)
    \/ \E j \in 1..Len(jobs) : StartJob(j)
    \/ \E j \in 1..Len(jobs) : Encode(j)
    \/ \E j \in 1..Len(jobs) : Decode(j)
    \/ \E j \in 1..Len(jobs) : Glob(j)
    \/ \E j \in 1..Len(jobs) : Evaluate(j)
    \/ \E j \in 1..Len(jobs) : OpenLog(j)
    \/ \E j \in 1..Len(jobs) : WriteLog(j)
    \/ Consume
    \/ PoolExit
SpecSolo == InitSolo /\ [][NextSolo]_vars

(***************************************************************************)
(* Properties.                                                             *)
(***************************************************************************)
JobIds == 1..Len(jobs)
Done == nDispatch > 0 /\ disp \in {"returned", "raised"}
EncodeFailed(j) == jobs[j].encOk = "fail"
DecodeFailed(j) == jobs[j].encOk = "ok" /\ jobs[j].decOk = "fail"

\* No file was at job j's log path when the dispatch began, and no other
\* job of the dispatch has the same log path.
LogPathOwn(j) ==
    /\ Paths(j).evl_log \notin logsAtStart
    /\ \A k \in JobIds \ {j} : Paths(k).evl_log # Paths(j).evl_log

\* C1: in parallel(), the failure of one item's job never prevents another
\* item's job from starting or finishing, and does not abort the
\* dispatcher: once parallel() is over, every sibling of a failed job has
\* run to its end and parallel() has returned.
C1_FailureIsolated ==
    Done =>
        \A j \in JobIds : \A k \in JobIds \ {j} :
            (jobs[j].pc = "raised" /\ jobs[k].item # jobs[j].item) =>
                (Finished(k) /\ disp = "returned")

\* C2: a job whose encode reports failure ends there: decode is not
\* invoked, the Metrics Bridge is not invoked, run neither creates nor
\* writes the evaluation log, and a log path that held no file before the
\* dispatch (and is no other job's) holds none.
C2_EncodeFailureSkipsAll ==
    \A j \in JobIds : EncodeFailed(j) =>
        /\ jobs[j].pc = "raised"
        /\ jobs[j].encCalls = 1
        /\ jobs[j].decCalls = 0
        /\ jobs[j].metCalls = 0
        /\ jobs[j].logOpens = 0 /\ jobs[j].logWrites = 0
        /\ LogPathOwn(j) => ~Exists(fs, Paths(j).evl_log)

C2_Witness ==
    \E j \in JobIds :
        /\ EncodeFailed(j) /\ LogPathOwn(j) /\ Done
        /\ \E k \in JobIds : k # j /\ jobs[k].pc = "returned"

\* C3: a job whose encode succeeds and whose decode fails has invoked
\* decode exactly once, never invokes the Metrics Bridge, and leaves no
\* evaluation log: run neither creates nor writes it, and a log path that
\* held no file before the dispatch (and is no other job's) holds none.
C3_DecodeFailureSkipsMetrics ==
    \A j \in JobIds : DecodeFailed(j) =>
        /\ jobs[j].pc = "raised"
        /\ jobs[j].encCalls = 1
        /\ jobs[j].decCalls = 1
        /\ jobs[j].metCalls = 0
        /\ jobs[j].logOpens = 0 /\ jobs[j].logWrites = 0
        /\ LogPathOwn(j) => ~Exists(fs, Paths(j).evl_log)

C3_Witness ==
    \E j \in JobIds :
        /\ DecodeFailed(j) /\ LogPathOwn(j) /\ Done
        /\ Exists(fs, Paths(j).bin_file)
        /\ \E k \in JobIds : k # j /\ jobs[k].pc = "returned"

\* C4: when encode or decode fails inside run, run returns normally to its
\* caller (the job is Aborted by an explicit short-circuit): no error
\* escapes run.
C4_AbortReturnsNormally ==
    \A j \in JobIds : (EncodeFailed(j) \/ DecodeFailed(j)) =>
        /\ jobs[j].pc # "raised"
        /\ jobs[j].err = "none"

\* C7: parallel() with use_gpu = True and no qualifying device raises
\* ValueError (NoAvailableResource) before any worker is spawned: no worker
\* process exists and no item's job is started.
C7_NoResourceFailsFast ==
    (nDispatch > 0 /\ useGpu /\ devices = 0) =>
        /\ disp = "raised"
        /\ dispErr = "ValueError"
        /\ workers = 0
        /\ results = <<>>
        /\ completed = 0
        /\ \A j \in JobIds : jobs[j].pc = "queued" /\ jobs[j].encCalls = 0

C7_Witness ==
    /\ nDispatch > 0 /\ useGpu /\ devices = 0
    /\ disp = "raised"
    /\ Len(jobs) = MaxItems

\* C8: parallel() with use_gpu = False applies the job to every item of
\* the list exactly once and returns only after every item's job has
\* finished.
C8_EveryItemOnce ==
    (Done /\ ~useGpu) =>
        \A j \in JobIds : Finished(j) /\ jobs[j].encCalls = 1

\* C9: after a dispatch, every item whose job failed before the log write
\* has no log file at its log path, whatever runs of the same item into
\* the same experiment root came before. (Stated for a job whose log path
\* is no other job's of the same dispatch, and for a log of the same item.)
C9_FailedItemHasNoLog ==
    Done =>
        \A j \in JobIds :
            ( /\ jobs[j].pc = "raised"
              /\ jobs[j].logOpens = 0
              /\ \A k \in JobIds \ {j} : Paths(k).evl_log # Paths(j).evl_log )
            => ~( /\ Exists(fs, Paths(j).evl_log)
                  /\ fs[Paths(j).evl_log].item = jobs[j].item )

\* 'r' followed by one or more digits 1..9, and nothing else.
IsRateTag(t) ==
    /\ Len(t) >= 2
    /\ t[1] = "r"
    /\ \A i \in 2..Len(t) : t[i] \in Digits19

\* C5: for every string that does not match the rate-tag pattern, the rate
\* setter emits the warning, completes without raising, and stores no
\* value.
C5_InvalidTagRecovered ==
    [][ (rateCalls' = rateCalls + 1 /\ ReSearch(rateIn') = NoMatch) =>
            /\ rateWarned'
            /\ rateErr' = "none"
            /\ rate' = rate ]_vars

\* C6: after any sequence of rate-setter calls the stored tag, if set, is
\* 'r' followed by one or more digits 1..9 and is the matched prefix of the
\* most recent accepted input; an input that is a valid tag is stored
\* unchanged.
C6_StoredTagIsMatchedPrefix ==
    rate # Unset =>
        /\ IsRateTag(rate)
        /\ lastAccepted # Unset
        /\ IsPrefix(rate, lastAccepted)
        /\ IsRateTag(lastAccepted) => rate = lastAccepted

\* C10 as stated: distinct items get distinct compressed-artifact,
\* reconstructed-output and log paths, so that only duplicate items can
\* share an output path.
C10_DistinctItemsDistinctPaths ==
    (probe.paths # NoPaths /\ probe.items[1] # probe.items[2]) =>
        /\ probe.paths[1].bin_file # probe.paths[2].bin_file
        /\ probe.paths[1].out_pcfile # probe.paths[2].out_pcfile
        /\ probe.paths[1].evl_log # probe.paths[2].evl_log

\* Two items in the same directory whose names differ at most in the last
\* suffix (cube.ply / cube.xyz / cube).
SameButSuffix(a, b) == a.dir = b.dir /\ Stem(a.name) = Stem(b.name)

\* C10, amended: distinct items get distinct reconstructed-output paths;
\* their compressed-artifact paths, and their log paths, are the same
\* exactly when the items differ at most in the last suffix of the file
\* name; and the three outputs of one item never coincide with each other
\* or with another item's output of a different kind.
C10_PathsDistinctUpToSuffix ==
    probe.paths # NoPaths =>
        LET a == probe.items[1]
            b == probe.items[2]
            pa == probe.paths[1]
            pb == probe.paths[2]
        IN  /\ (pa.out_pcfile = pb.out_pcfile) <=> (a = b)
            /\ (pa.bin_file = pb.bin_file) <=> SameButSuffix(a, b)
            /\ (pa.evl_log = pb.evl_log) <=> SameButSuffix(a, b)
            /\ pa.bin_file \notin {pa.out_pcfile, pa.evl_log,
                                   pb.out_pcfile, pb.evl_log}
            /\ pa.out_pcfile \notin {pa.evl_log, pb.bin_file, pb.evl_log}
            /\ pa.evl_log \notin {pb.bin_file, pb.out_pcfile}

C10_Witness ==
    /\ probe.paths # NoPaths
    /\ probe.items[1] # probe.items[2]
    /\ SameButSuffix(probe.items[1], probe.items[2])
    /\ probe.paths[1].bin_file = probe.paths[2].bin_file
    /\ probe.paths[1].out_pcfile # probe.paths[2].out_pcfile

\* The files of the artifact's directory whose name starts with the
\* artifact's stem.
StemSiblings(j) ==
    {p \in DOMAIN fs : /\ Parent(p) = Parent(Paths(j).bin_file)
                       /\ IsPrefix(Stem(Paths(j).bin_file.name), p.name)}

\* C12: the artifact-file list run() passes to the metrics bridge holds
\* every file of the artifact's directory whose name starts with the
\* artifact's stem, the files that differ from the artifact only in suffix
\* included, and it is collected once, after a successful decode.
C12_ArtifactListIsStemGlob ==
    \A j \in JobIds :
        /\ jobs[j].globCalls >= 1 =>
              /\ jobs[j].globCalls = 1
              /\ jobs[j].decCalls = 1 /\ jobs[j].decOk = "ok"
              /\ Exists(fs, Paths(j).out_pcfile)
        /\ jobs[j].metCalls >= 1 =>
              /\ jobs[j].globCalls = 1
              /\ jobs[j].metBins = StemSiblings(j)
              /\ Paths(j).bin_file \in jobs[j].metBins

\* A job whose metrics call received its artifact and a file beside it
\* that differs only in suffix, while a file of another stem was left out.
C12_Witness ==
    \E j \in JobIds :
        /\ jobs[j].metCalls = 1 /\ jobs[j].ret.kind = "report"
        /\ PathWithSuffix(Paths(j).bin_file, SideSuffix) \in jobs[j].metBins
        /\ Paths(j).bin_file \in jobs[j].metBins
        /\ Exists(fs, OtherFile) /\ OtherFile \notin jobs[j].metBins

\* Job j has been through __set_filepath.
Resolved(j) == jobs[j].pc # "queued"

\* No other job of this dispatch has job j's log path.
LogUnshared(j) ==
    \A k \in JobIds \ {j} : Paths(k).evl_log # Paths(j).evl_log

\* C15: __set_filepath is idempotent: invocations with the same arguments
\* return the same paths, none fails because an output directory already
\* exists, and once it has returned the parent directories of the
\* artifact, of the reconstructed output and of the log exist.
C15_ResolverIdempotent ==
    \A j \in JobIds :
        /\ jobs[j].err # "FileExistsError"
        /\ Resolved(j) =>
              /\ Parent(Paths(j).bin_file) \in dirs
              /\ Parent(Paths(j).out_pcfile) \in dirs
              /\ Parent(Paths(j).evl_log) \in dirs
        /\ \A k \in JobIds :
              jobs[k].item = jobs[j].item => Paths(k) = Paths(j)

\* The item of a job that ran to its end had already been resolved, and its
\* directories made, in an earlier dispatch and by an earlier job of this
\* one.
C15_Witness ==
    \E j \in JobIds :
        /\ nDispatch = MaxDispatch /\ jobs[j].pc = "returned"
        /\ Paths(j).evl_log \in logsAtStart
        /\ \E k \in 1..(j - 1) : jobs[k].item = jobs[j].item /\ Resolved(k)

\* C16: within one job the steps come in the order encode, decode, metrics,
\* log: decode is not begun before encode has finished, the metrics bridge
\* is not invoked before decode has finished, the log is neither opened nor
\* written before the bridge has returned its report, and no step is taken
\* more than once.
C16_StepsInOrder ==
    \A j \in JobIds :
        /\ jobs[j].encCalls <= 1 /\ jobs[j].decCalls <= 1
        /\ jobs[j].metCalls <= 1
        /\ jobs[j].logOpens <= 1 /\ jobs[j].logWrites <= 1
        /\ (jobs[j].pc = "decode" \/ jobs[j].decCalls >= 1) =>
              jobs[j].encCalls = 1 /\ jobs[j].encOk = "ok"
        /\ (jobs[j].pc = "evaluate" \/ jobs[j].metCalls >= 1) =>
              jobs[j].decCalls = 1 /\ jobs[j].decOk = "ok"
        /\ (jobs[j].pc = "open" \/ jobs[j].logOpens >= 1) =>
              jobs[j].metCalls = 1 /\ jobs[j].ret.kind = "report"
        /\ jobs[j].logWrites >= 1 => jobs[j].logOpens = 1

\* A job that took each of the four steps once, beside a job still at an
\* earlier step.
C16_Witness ==
    \E j \in JobIds :
        /\ jobs[j].pc = "returned"
        /\ jobs[j].encCalls = 1 /\ jobs[j].decCalls = 1
        /\ jobs[j].metCalls = 1 /\ jobs[j].logWrites = 1
        /\ \E k \in JobIds : jobs[k].pc = "decode"

C18_FailedCommandRaises ==
    \A j \in JobIds :
        /\ jobs[j].encOk = "fail" =>
              /\ jobs[j].pc = "raised" /\ jobs[j].err = "AssertionError"
              /\ jobs[j].decOk = "none"
        /\ jobs[j].decOk = "fail" =>
              /\ jobs[j].pc = "raised" /\ jobs[j].err = "AssertionError"
              /\ jobs[j].globCalls = 0
        /\ jobs[j].pc \in {"decode", "glob", "evaluate", "open", "write",
                            "returned"} => jobs[j].encOk = "ok"
        /\ jobs[j].pc \in {"glob", "evaluate", "open", "write", "returned"} =>
              jobs[j].decOk = "ok"

\* One job's encode command and another job's decode command have failed.
C18_Witness ==
    \E j, k \in JobIds :
        /\ jobs[j].encOk = "fail" /\ jobs[j].err = "AssertionError"
        /\ jobs[k].decOk = "fail" /\ jobs[k].err = "AssertionError"

\* C20: when a run of an item succeeds, the item's log holds exactly the
\* report that this run's metrics call returned, whatever it held from
\* earlier runs of the item into the same experiment directory.
C20_LogIsThisRunsReport ==
    \A j \in JobIds :
        (jobs[j].pc = "returned" /\ LogUnshared(j)) =>
            /\ Exists(fs, Paths(j).evl_log)
            /\ fs[Paths(j).evl_log] = jobs[j].ret
            /\ jobs[j].ret = Content(nDispatch, j, jobs[j].item, "report")

\* A successful run of an item whose log held the report of an earlier run.
C20_Witness ==
    \E j \in JobIds :
        /\ jobs[j].pc = "returned" /\ LogUnshared(j)
        /\ nDispatch = MaxDispatch
        /\ Paths(j).evl_log \in logsAtStart
        /\ fs[Paths(j).evl_log].run = nDispatch

\* execute_cmd has been called.
Called == exec.calls > 0

\* C13: execute_cmd never lets an exception escape: every call, the calls
\* whose program cannot be started and whose captured output is not valid
\* UTF-8 included, gives its caller a boolean.
C13_ExecutorNeverRaises ==
    Called => exec.did.result \in {"True", "False"}

\* C14: execute_cmd runs the command once and returns True iff the exit
\* code is zero; on a nonzero exit code it returns False and logs a message
\* holding every argument of the command, in order.
C14_TrueIffExitZero ==
    (Called /\ exec.outcome.spawned) =>
        /\ exec.did.attempts = 1
        /\ (exec.did.result = "True") <=> (exec.outcome.returncode = 0)
        /\ exec.outcome.returncode # 0 =>
              /\ exec.did.result = "False"
              /\ SelectSeq(Tail(exec.did.log), LAMBDA t : t # " ") = exec.cmd

\* C11: run_dataset puts its output under exp_dir/<rate tag>: every file
\* lies under the tag of the run that wrote it, so a run under another tag
\* than the one a file was written under leaves that file as it was.
C11_OtherRateUntouched ==
    /\ \A p \in DOMAIN fs :
          p.root = DatasetRoot(ExpDir, runRate[fs[p].run])
    /\ \A p \in DOMAIN fsAtStart :
          runRate[fsAtStart[p].run] # runRate[nDispatch] =>
              p \in DOMAIN fs /\ fs[p] = fsAtStart[p]

\* An item that ran under one tag has run to its end under another tag,
\* and its first log is still there.
C11_Witness ==
    /\ nDispatch = MaxDispatch
    /\ runRate[1] # runRate[nDispatch]
    /\ \E j \in JobIds, p \in DOMAIN fsAtStart :
          /\ jobs[j].pc = "returned"
          /\ p.sub = "evl" /\ p.name = Paths(j).evl_log.name
          /\ fsAtStart[p].kind = "report" /\ fsAtStart[p].item = jobs[j].item
          /\ fs[Paths(j).evl_log].run = nDispatch

\* C19: PCGCv1.run keeps the guarantees of the default run: after a failed
\* encode command the decode command is not run and there are neither
\* metrics nor a log; after a failed decode command there are neither
\* metrics nor a log; and in a run that succeeds the artifact files are
\* globbed by stem before the metrics bridge is invoked with them, the log
\* is opened after the bridge returned, and writing it ends the run.
C19_OverrideKeepsGuarantees ==
    \A j \in JobIds :
        /\ jobs[j].encOk = "fail" =>
              /\ jobs[j].decCalls = 0 /\ jobs[j].globCalls = 0
              /\ jobs[j].metCalls = 0
              /\ jobs[j].logOpens = 0 /\ jobs[j].logWrites = 0
              /\ LogPathOwn(j) => ~Exists(fs, V1Paths(j).evl_log)
        /\ jobs[j].decOk = "fail" =>
              /\ jobs[j].globCalls = 0 /\ jobs[j].metCalls = 0
              /\ jobs[j].logOpens = 0 /\ jobs[j].logWrites = 0
              /\ LogPathOwn(j) => ~Exists(fs, V1Paths(j).evl_log)
        /\ jobs[j].decCalls >= 1 => jobs[j].encOk = "ok"
        /\ jobs[j].globCalls >= 1 => jobs[j].decOk = "ok"
        /\ jobs[j].metCalls >= 1 =>
              /\ jobs[j].globCalls = 1
              /\ jobs[j].metBins = jobs[j].bin_files
              /\ V1Paths(j).bin_file \in jobs[j].metBins
        /\ jobs[j].logOpens >= 1 =>
              jobs[j].metCalls = 1 /\ jobs[j].ret.kind = "report"
        /\ jobs[j].logWrites >= 1 =>
              jobs[j].logOpens = 1 /\ jobs[j].pc = "returned"

\* A dispatch of PCGCv1 jobs is over: one job's encode or decode command
\* failed, the other job wrote its log.
C19_Witness ==
    /\ disp = "returned"
    /\ \E j, k \in JobIds :
          /\ jobs[j].pc = "returned"
          /\ jobs[j].encOk = "fail" \/ jobs[j].decOk = "fail"
          /\ jobs[k].pc = "returned" /\ jobs[k].logWrites = 1
          /\ jobs[k].metBins # {}

\* C21: the artifact-file list a job passes to the metrics bridge holds
\* only files written by the job's own encode, whatever the other jobs of
\* the dispatch do: it holds the job's artifact and never the artifact of
\* another item, such as an item whose name extends this item's stem.
C21_ArtifactListIsOwn ==
    \A j \in JobIds :
        jobs[j].metCalls >= 1 =>
            /\ jobs[j].metBins = {Paths(j).bin_file}
            /\ \A k \in JobIds :
                  Stem(jobs[k].item.name) # Stem(jobs[j].item.name) =>
                      Paths(k).bin_file \notin jobs[j].metBins


====
